---- MODULE Spec2Model ----
(***************************************************************************)
(* Model of the skill-customizer command-line tools:                       *)
(*   finalize_skill.py  (validate_skill, confirm, package, finalize, main) *)
(*   fork_skill.py      (update_skill_metadata, fork_skill, main)          *)
(*   track_feedback.py  (collect_feedback_interactive, save_feedback)      *)
(* Text is a sequence of one-character strings, a path is a sequence of    *)
(* path segments (each a text), the filesystem is a function from the      *)
(* existing paths to nodes.                                                *)
(***************************************************************************)
EXTENDS Integers, Sequences, FiniteSets, TLC

VARIABLES
    fs,     \* the filesystem: existing path -> node
    fs0,    \* the filesystem when the running invocation started
    now,    \* the local wall clock, a datetime
    val,    \* the last direct call of validate_skill and what it returned
    fin,    \* the finalize_skill.py process
    fk,     \* the fork_skill.py process
    fb,     \* the track_feedback.py process
    hist,   \* the invocations that have ended, oldest first
    opts    \* what the operator passes on the command lines of this session

vars == <<fs, fs0, now, val, fin, fk, fb, hist, opts>>

---------------------------------------------------------------------------
(* Bounds of the model.                                                    *)

MaxNameLen == 3
MaxFinalizeRuns == 2
MaxFeedbackRuns == 3

---------------------------------------------------------------------------
(* Text: what Python's str methods and the re patterns of the scripts do.  *)

Whitespace == {" ", "\n", "\t", "\r"}

Max(a, b) == IF a >= b THEN a ELSE b

\* the least element of the set of integers S, or d when S is empty
MinOr(d, S) == IF S = {} THEN d ELSE CHOOSE i \in S : \A j \in S : i <= j

\* the greatest element of the set of integers S, or d when S is empty
MaxOr(d, S) == IF S = {} THEN d ELSE CHOOSE i \in S : \A j \in S : i >= j

\* s[i:i+len(pat)] == pat (i is 1-based)
MatchAt(s, pat, i) ==
    /\ i >= 1
    /\ i + Len(pat) - 1 <= Len(s)
    /\ \A k \in 1..Len(pat) : s[i + k - 1] = pat[k]

\* s.find(pat, from): the least index >= from where pat stands, 0 when none
Find(s, pat, from) ==
    MinOr(0, {i \in Max(from, 1)..(Len(s) - Len(pat) + 1) : MatchAt(s, pat, i)})

\* pat in s
Contains(s, pat) == \E i \in 1..(Len(s) - Len(pat) + 1) : MatchAt(s, pat, i)

\* s.startswith(pat)
StartsWith(s, pat) == MatchAt(s, pat, 1)

\* s.endswith(pat)
EndsWith(s, pat) == Len(s) >= Len(pat) /\ MatchAt(s, pat, Len(s) - Len(pat) + 1)

\* the starts of the non-overlapping occurrences of pat in s that s.count and
\* s.replace take, left to right: an occurrence counts when the occurrences
\* before it that count leave it whole
RECURSIVE Taken(_, _, _)
Taken(all, width, from) ==
    IF {i \in all : i >= from} = {} THEN {}
    ELSE {MinOr(0, {i \in all : i >= from})}
         \cup Taken(all, width, MinOr(0, {i \in all : i >= from}) + width)

Occurrences(s, pat) ==
    Taken({i \in 1..(Len(s) - Len(pat) + 1) : MatchAt(s, pat, i)}, Len(pat), 1)

\* s.count(pat)
Count(s, pat) == Cardinality(Occurrences(s, pat))

\* s with the text at [from, to] replaced by new
Splice(s, from, to, new) == SubSeq(s, 1, from - 1) \o new \o SubSeq(s, to + 1, Len(s))

\* s.replace(old, new): from the last occurrence to the first, so that the
\* indices of the ones still to do stay good
RECURSIVE ReplaceAt(_, _, _, _)
ReplaceAt(s, width, new, starts) ==
    IF starts = {} THEN s
    ELSE ReplaceAt(Splice(s, MaxOr(0, starts), MaxOr(0, starts) + width - 1, new),
                   width, new, starts \ {MaxOr(0, starts)})

Replace(s, old, new) == ReplaceAt(s, Len(old), new, Occurrences(s, old))

\* s.strip()
Strip(s) == SubSeq(s, MinOr(1, {i \in 1..Len(s) : s[i] \notin Whitespace}),
                      MaxOr(0, {i \in 1..Len(s) : s[i] \notin Whitespace}))

LowerLetters == <<"a","b","c","d","e","f","g","h","i","j","k","l","m","n","o","p","q","r","s","t","u","v","w","x","y","z">>
UpperLetters == <<"A","B","C","D","E","F","G","H","I","J","K","L","M","N","O","P","Q","R","S","T","U","V","W","X","Y","Z">>

\* c.lower() for one character
LowerChar(c) ==
    IF \E k \in 1..26 : UpperLetters[k] = c
    THEN LowerLetters[CHOOSE k \in 1..26 : UpperLetters[k] = c]
    ELSE c

\* c.upper() for one character
UpperChar(c) ==
    IF \E k \in 1..26 : LowerLetters[k] = c
    THEN UpperLetters[CHOOSE k \in 1..26 : LowerLetters[k] = c]
    ELSE c

\* s.lower()
Lower(s) == [i \in 1..Len(s) |-> LowerChar(s[i])]

\* s.capitalize()
Capitalize(s) == [i \in 1..Len(s) |-> IF i = 1 THEN UpperChar(s[i]) ELSE LowerChar(s[i])]

DigitChars == <<"0","1","2","3","4","5","6","7","8","9">>

\* the decimal digits of n >= 0
RECURSIVE Decimal(_)
Decimal(n) == IF n < 10 THEN <<DigitChars[n + 1]>>
              ELSE Decimal(n \div 10) \o <<DigitChars[(n % 10) + 1]>>

\* %0wd: the decimal digits of n, zero-padded on the left to width w
RECURSIVE ZeroPad(_, _)
ZeroPad(t, w) == IF Len(t) >= w THEN t ELSE ZeroPad(<<"0">> \o t, w)

LowerAlnumHyphen ==
    {"a","b","c","d","e","f","g","h","i","j","k","l","m","n","o","p","q","r","s",
     "t","u","v","w","x","y","z","0","1","2","3","4","5","6","7","8","9","-"}

\* re.match(r'^[a-z0-9-]+$', s); $ also matches before one trailing newline
MatchesNamePattern(s) ==
    LET body == IF Len(s) >= 1 /\ s[Len(s)] = "\n" THEN SubSeq(s, 1, Len(s) - 1) ELSE s
    IN  /\ Len(body) >= 1
        /\ \A i \in 1..Len(body) : body[i] \in LowerAlnumHyphen

\* s.startswith('-') or s.endswith('-') or '--' in s
BreaksHyphenRules(s) ==
    \/ StartsWith(s, <<"-">>)
    \/ EndsWith(s, <<"-">>)
    \/ Contains(s, <<"-","-">>)

NoMatch == [found |-> FALSE, from |-> 0, mid |-> 0, to |-> 0]

\* re.match(r'^---\n(.*?)\n---', content, re.DOTALL): the span [from, to] of
\* group 1, the shortest text between the opening line and the first "\n---"
\* after it
FrontmatterClosedAt(close) ==
    IF close = 0 THEN NoMatch ELSE [found |-> TRUE, from |-> 5, mid |-> 5, to |-> close - 1]

FrontmatterMatch(content) ==
    IF StartsWith(content, <<"-","-","-","\n">>)
    THEN FrontmatterClosedAt(Find(content, <<"\n","-","-","-">>, 5))
    ELSE NoMatch

\* the first index >= i of s that holds no whitespace, Len(s) + 1 when none
FirstNonSpace(s, i) == MinOr(Len(s) + 1, {k \in i..Len(s) : s[k] \notin Whitespace})

\* where "(.+)" starts after "\s*" ran from lo to run - 1: at run, or, when the
\* whitespace runs to the end of s, at the last character of the run that is
\* no newline (the greedy "\s*" gives characters back until "." matches one);
\* 0 when there is none
ValueStart(s, lo, run) ==
    IF run <= Len(s) THEN run ELSE MaxOr(0, {k \in lo..Len(s) : s[k] # "\n"})

\* the last index of the line that holds index i
LineEnd(s, i) == MinOr(Len(s) + 1, {k \in i..Len(s) : s[k] = "\n"}) - 1

NameValueFrom(s, at, g2) ==
    IF g2 = 0 THEN NoMatch
    ELSE [found |-> TRUE, from |-> at, mid |-> g2, to |-> LineEnd(s, g2)]

NameMatchAt(s, at) ==
    IF at = 0 THEN NoMatch
    ELSE NameValueFrom(s, at, ValueStart(s, at + 5, FirstNonSpace(s, at + 5)))

\* re.search(r'name:\s*(.+)', s) and the (name:\s*)([^\n]+) of re.sub: the
\* leftmost "name:" (a later one cannot match when this one does not: then
\* only newlines follow it).  Group 1 of the first pattern and group 2 of the
\* second are [mid, to], group 1 of the second is [from, mid - 1].
NameMatch(s) == NameMatchAt(s, Find(s, <<"n","a","m","e",":">>, 1))

---------------------------------------------------------------------------
(* The filesystem.  The root <<>> is the working directory of every tool.  *)

Dir == [kind |-> "dir", text |-> <<>>, entries |-> {}]
File(t) == [kind |-> "file", text |-> t, entries |-> {}]
\* a zip container: one entry per zipf.write(file_path, arcname)
ZipFile(es) == [kind |-> "zip", text |-> <<>>, entries |-> es]

Exists(f, p) == p \in DOMAIN f
IsDir(f, p) == Exists(f, p) /\ f[p].kind = "dir"
\* Path.is_file(): a regular file, whatever it holds
IsFile(f, p) == Exists(f, p) /\ f[p].kind # "dir"

IsPrefix(p, q) == Len(p) <= Len(q) /\ SubSeq(q, 1, Len(p)) = p
\* everything below directory p
Under(f, p) == {q \in DOMAIN f : IsPrefix(p, q) /\ q # p}

\* directory p with everything below it, as a function of the paths
Tree(f, p) == [q \in {x \in DOMAIN f : IsPrefix(p, x)} |-> f[q]]

Put(f, p, node) == [q \in DOMAIN f \cup {p} |-> IF q = p THEN node ELSE f[q]]

Prefixes(p) == {SubSeq(p, 1, k) : k \in 0..Len(p)}

\* Path.mkdir(parents=True, exist_ok=True): raises when a prefix is a file
MkdirParents(f, p) ==
    IF \E q \in Prefixes(p) : IsFile(f, q)
    THEN [ok |-> FALSE, fs |-> f]
    ELSE [ok |-> TRUE,
          fs |-> [q \in DOMAIN f \cup Prefixes(p) |-> IF q \in DOMAIN f THEN f[q] ELSE Dir]]

SKILL_MD == <<"S","K","I","L","L",".","m","d">>

---------------------------------------------------------------------------
(* finalize_skill.py: validate_skill                                       *)

Result(valid, message, name) == [valid |-> valid, message |-> message, name |-> name]

\* lines 78-83, the checks on the name
ValidateName(name) ==
    IF ~MatchesNamePattern(name)
    THEN Result(FALSE, "Name should be hyphen-case (lowercase, hyphens only)", name)
    ELSE IF BreaksHyphenRules(name)
    THEN Result(FALSE, "Name cannot start/end with hyphen or contain consecutive hyphens", name)
    ELSE Result(TRUE, "Skill is valid!", name)

\* lines 74-76
ValidateNameMatch(frontmatter, m) ==
    IF m.found THEN ValidateName(Strip(SubSeq(frontmatter, m.mid, m.to)))
    ELSE Result(TRUE, "Skill is valid!", <<>>)

\* lines 66-83, the checks on the frontmatter
ValidateFrontmatter(frontmatter) ==
    IF ~Contains(frontmatter, <<"n","a","m","e",":">>)
    THEN Result(FALSE, "Missing 'name' in frontmatter", <<>>)
    ELSE IF ~Contains(frontmatter, <<"d","e","s","c","r","i","p","t","i","o","n",":">>)
    THEN Result(FALSE, "Missing 'description' in frontmatter", <<>>)
    ELSE ValidateNameMatch(frontmatter, NameMatch(frontmatter))

\* lines 60-64
ValidateFrontmatterMatch(content, fm) ==
    IF ~fm.found
    THEN Result(FALSE, "Invalid YAML frontmatter format", <<>>)
    ELSE ValidateFrontmatter(SubSeq(content, fm.from, fm.to))

\* lines 54-83, the checks on the text of SKILL.md
ValidateContent(content) ==
    IF ~StartsWith(content, <<"-","-","-">>)
    THEN Result(FALSE, "SKILL.md missing YAML frontmatter", <<>>)
    ELSE ValidateFrontmatterMatch(content, FrontmatterMatch(content))

\* a validator that looks for SKILL.md before it looks at the directory
validate_metadata_first(f, skill_path) ==
    IF ~Exists(f, Append(skill_path, SKILL_MD))
    THEN Result(FALSE, "SKILL.md not found in skill directory", <<>>)
    ELSE ValidateContent(f[Append(skill_path, SKILL_MD)].text)

validate_skill(f, skill_path) ==
    IF ~Exists(f, skill_path)
    THEN Result(FALSE, "Skill directory not found", <<>>)
    ELSE IF ~IsDir(f, skill_path)
    THEN Result(FALSE, "Path is not a directory", <<>>)
    ELSE IF ~Exists(f, Append(skill_path, SKILL_MD))
    THEN Result(FALSE, "SKILL.md not found in skill directory", <<>>)
    ELSE ValidateContent(f[Append(skill_path, SKILL_MD)].text)

---------------------------------------------------------------------------
(* The clock: datetime.now() reads `now`; local time may stand still       *)
(* between two reads or jump to any other value.                           *)

DateTime(y, mo, d, h, mi, sec) == [year |-> y, month |-> mo, day |-> d,
                                   hour |-> h, minute |-> mi, second |-> sec]

Times == {DateTime(2024, 1, 2, 3, 4, 5), DateTime(2025, 11, 12, 13, 14, 15)}

\* t.strftime("%Y%m%d-%H%M%S")
StampOf(t) ==
    ZeroPad(Decimal(t.year), 4) \o ZeroPad(Decimal(t.month), 2) \o ZeroPad(Decimal(t.day), 2)
    \o <<"-">>
    \o ZeroPad(Decimal(t.hour), 2) \o ZeroPad(Decimal(t.minute), 2) \o ZeroPad(Decimal(t.second), 2)

Tick ==
    /\ \E t \in Times \ {now} : now' = t
    /\ UNCHANGED <<fs, fs0, val, fin, fk, fb, hist, opts>>

---------------------------------------------------------------------------
(* finalize_skill.py: the process                                          *)

NoPath == <<>>     \* also the empty string given as a path: falsy in Python

\* val before any direct call, and after the operator went on to a tool
ValNone == [called |-> FALSE, path |-> NoPath, result |-> Result(FALSE, "", <<>>)]

PROG == <<<<"f","i","n","a","l","i","z","e","_","s","k","i","l","l",".","p","y">>>>
OUTPUT_FLAG == <<<<"-","-","o","u","t","p","u","t">>>>

\* before datetime.now() was read
NoTime == DateTime(0, 0, 0, 0, 0, 0)

FinIdle == [pc |-> "idle", skill_path |-> NoPath, output_dir |-> NoPath, exit |-> -1,
            prompted |-> FALSE, response |-> <<>>, result |-> Result(FALSE, "", <<>>),
            at |-> NoTime, zip |-> NoPath, steps |-> <<>>]

\* an exit that reports success whatever happened
ExitZero(f, code) == [f EXCEPT !.pc = "exited", !.exit = 0]

\* sys.exit(code): the process ends and its record joins the history
FinExit(f, code) == [f EXCEPT !.pc = "exited", !.exit = code]

\* main, lines 245-274: the arguments
FinMain(argv) ==
    /\ fin.pc = "idle"
    /\ Len(hist) < MaxFinalizeRuns
    /\ fs0' = fs
    /\ val' = ValNone
    /\ \E at \in {MinOr(0, {i \in 1..Len(argv) : argv[i] = OUTPUT_FLAG})} :
           IF Len(argv) < 2
           THEN fin' = FinExit(FinIdle, 1)
           ELSE IF at # 0 /\ at + 1 > Len(argv)
           THEN fin' = FinExit([FinIdle EXCEPT !.skill_path = argv[2]], 1)
           ELSE fin' = [FinIdle EXCEPT !.pc = "dircheck", !.skill_path = argv[2],
                           !.output_dir = IF at # 0 THEN argv[at + 1] ELSE NoPath]
    /\ UNCHANGED <<fs, now, fk, fb, hist, opts>>

\* finalize_skill, lines 205-214
FinDirCheck ==
    /\ fin.pc = "dircheck"
    /\ \E f \in {[fin EXCEPT !.steps = Append(@, "dircheck")]} :
           IF ~Exists(fs, fin.skill_path) \/ ~IsDir(fs, fin.skill_path)
           THEN fin' = FinExit(f, 1)
           ELSE fin' = [f EXCEPT !.pc = "confirm"]
    /\ UNCHANGED <<fs, fs0, now, val, fk, fb, hist, opts>>

\* a prompt that takes every answer for a yes
AnyResponse(response) == TRUE

\* confirm_finalization, line 114-116
Affirmative(response) == Lower(Strip(response)) \in {<<"y","e","s">>, <<"y">>}

\* finalize_skill, lines 216-220
FinConfirm(response) ==
    /\ fin.pc = "confirm"
    /\ \E f \in {[fin EXCEPT !.steps = Append(@, "confirm"), !.prompted = TRUE,
                               !.response = response]} :
           IF ~Affirmative(response)
           THEN fin' = FinExit(f, 1)
           ELSE fin' = [f EXCEPT !.pc = "validate"]
    /\ UNCHANGED <<fs, fs0, now, val, fk, fb, hist, opts>>

\* finalize_skill, lines 222-231
FinValidate ==
    /\ fin.pc = "validate"
    /\ \E r \in {validate_skill(fs, fin.skill_path)} :
           IF ~r.valid
           THEN fin' = FinExit([fin EXCEPT !.steps = Append(@, "validate"), !.result = r], 1)
           ELSE fin' = [fin EXCEPT !.steps = Append(@, "validate"), !.result = r,
                                   !.pc = "package"]
    /\ UNCHANGED <<fs, fs0, now, val, fk, fb, hist, opts>>

\* arcname = file_path.relative_to(skill_path.parent)
ArcName(skill_path, file_path) == SubSeq(file_path, Len(skill_path), Len(file_path))

\* the entries written by the walk of lines 151-157 over filesystem f
WalkEntries(f, skill_path) ==
    {[arcname |-> ArcName(skill_path, q), text |-> f[q].text] :
        q \in {x \in Under(f, skill_path) : IsFile(f, x)}}

\* f"{skill_name}-{timestamp}.zip" in the output directory, line 143
ZipFilename(output_path, skill_name, t) ==
    Append(output_path, skill_name \o <<"-">> \o StampOf(t) \o <<".","z","i","p">>)

\* package_skill_with_timestamp, lines 130-168, and finalize_skill 234-242.
\* fault: "none"; "mkdir", line 139 raises (uncaught, the interpreter exits 1);
\* "open", ZipFile() raises before the file exists; "write", the first write
\* raises and the archive is left in place with no entry.
FinPackage(fault) ==
    /\ fin.pc = "package"
    /\ \E f \in {[fin EXCEPT !.steps = Append(@, "package"), !.at = now]},
          made \in {IF fin.output_dir # NoPath THEN MkdirParents(fs, fin.output_dir)
                    ELSE [ok |-> TRUE, fs |-> fs]},
          zip_filename \in {ZipFilename(fin.output_dir,
                                        fin.skill_path[Len(fin.skill_path)], now)} :
         \E entries \in {WalkEntries(Put(made.fs, zip_filename, ZipFile({})),
                                      fin.skill_path)} :
           IF fault = "mkdir" \/ ~made.ok
           THEN /\ fin.output_dir # NoPath
                /\ fin' = FinExit(f, 1)
                /\ fs' = fs
           ELSE IF fault = "open"
           THEN /\ fin' = FinExit(f, 1)
                /\ fs' = made.fs
           ELSE IF fault = "write"
           THEN /\ entries # {}
                /\ fs' = Put(made.fs, zip_filename, ZipFile({}))
                /\ fin' = FinExit(f, 1)
           ELSE /\ fs' = Put(made.fs, zip_filename, ZipFile(entries))
                /\ fin' = FinExit([f EXCEPT !.zip = zip_filename], 0)
    /\ UNCHANGED <<fs0, now, val, fk, fb, hist, opts>>

\* what the history keeps of an invocation that ended: its exit status and,
\* of one that packaged, the archive as written and the skill directory as
\* the invocation found it
FinRecord(f, before, after) ==
    [tool |-> "finalize", exit |-> f.exit, zip |-> f.zip,
     archive |-> IF f.zip # NoPath THEN after[f.zip] ELSE Dir,
     tree |-> IF f.zip # NoPath THEN Tree(before, f.skill_path) ELSE <<>>]

\* the process is gone; the operator may start the tool again
FinReap ==
    /\ fin.pc = "exited"
    /\ hist' = Append(hist, FinRecord(fin, fs0, fs))
    /\ fin' = FinIdle
    /\ UNCHANGED <<fs, fs0, now, val, fk, fb, opts>>

---------------------------------------------------------------------------
(* fork_skill.py: update_skill_metadata                                    *)

OctalDigits == {"0", "1", "2", "3", "4", "5", "6", "7"}
Digits == OctalDigits \cup {"8", "9"}

DigitValue(c) == CHOOSE n \in 0..9 : DigitChars[n + 1] = c

\* chr(code) for 64 <= code <= 127; the grave accent, which a TLA+ string
\* cannot hold, is the character "BACKTICK"
Ascii64 == <<"@","A","B","C","D","E","F","G","H","I","J","K","L","M","N","O","P","Q","R","S","T","U","V","W","X","Y","Z","[","\\","]","^","_","BACKTICK","a","b","c","d","e","f","g","h","i","j","k","l","m","n","o","p","q","r","s","t","u","v","w","x","y","z","{","|","}","~">> \o <<"DEL">>

Chr(code) == Ascii64[code - 63]

\* What re.sub makes of the replacement template '\\1' + new_name, the
\* f'\\1{new_name}' of line 46 (sre_parse.parse_template): a digit after
\* "\1" joins the escape.  "\1" and two octal digits are an octal escape, one
\* literal character; "\1" and any other digit name group 10 to 19, which the
\* pattern lacks: re.error, raised before any match is looked for.
\* [ok, group1 (whether group 1 opens the replacement), text (what follows)]
NameTemplate(new_name) ==
    IF new_name = <<>> \/ new_name[1] \notin Digits
    THEN [ok |-> TRUE, group1 |-> TRUE, text |-> new_name]
    ELSE IF /\ new_name[1] \in OctalDigits
            /\ Len(new_name) >= 2
            /\ new_name[2] \in OctalDigits
    THEN [ok |-> TRUE, group1 |-> FALSE,
          text |-> <<Chr(64 + 8 * DigitValue(new_name[1]) + DigitValue(new_name[2]))>>
                   \o SubSeq(new_name, 3, Len(new_name))]
    ELSE [ok |-> FALSE, group1 |-> FALSE, text |-> <<>>]

\* lines 44-49: re.sub(r'(name:\s*)([^\n]+)', template, content, count=1)
SubstituteMatch(content, m, t) ==
    IF ~m.found THEN content
    ELSE Splice(content, IF t.group1 THEN m.mid ELSE m.from, m.to, t.text)

SubstituteName(content, t) == SubstituteMatch(content, NameMatch(content), t)

\* now.strftime("%Y-%m-%d")
DateOf(t) ==
    ZeroPad(Decimal(t.year), 4) \o <<"-">> \o ZeroPad(Decimal(t.month), 2)
    \o <<"-">> \o ZeroPad(Decimal(t.day), 2)

\* the two keys, as lines 59 and 70 write them
CustomizationKeys(source_skill_name, t) ==
    <<"\n"," "," ","c","u","s","t","o","m","i","z","e","d","-","f","r","o","m",":"," ">> \o source_skill_name
    \o <<"\n"," "," ","c","u","s","t","o","m","i","z","a","t","i","o","n","-","d","a","t","e",":"," ">> \o DateOf(t)

\* lines 57-73, on the frontmatter that line 52 found
UpdateFrontmatter(content, frontmatter, keys) ==
    IF ~Contains(frontmatter, <<"m","e","t","a","d","a","t","a",":">>)
    THEN Replace(content,
                 <<"-","-","-","\n">> \o frontmatter \o <<"\n","-","-","-">>,
                 <<"-","-","-","\n">> \o frontmatter \o <<"\n","m","e","t","a","d","a","t","a",":">> \o keys \o <<"\n","-","-","-">>)
    ELSE IF ~Contains(frontmatter, <<"c","u","s","t","o","m","i","z","e","d","-","f","r","o","m",":">>)
    THEN Splice(content, Find(content, <<"m","e","t","a","d","a","t","a",":">>, 1) + 9,
                         Find(content, <<"m","e","t","a","d","a","t","a",":">>, 1) + 8, keys)
    ELSE content

\* lines 52-73
UpdateMetadataMatch(content, fm, keys) ==
    IF fm.found THEN UpdateFrontmatter(content, SubSeq(content, fm.from, fm.to), keys)
    ELSE content

UpdateMetadata(content, keys) == UpdateMetadataMatch(content, FrontmatterMatch(content), keys)

\* update_skill_metadata, lines 41-75: [ok, text]; not ok when re.sub raises
UpdateWithTemplate(content, t, keys) ==
    IF ~t.ok THEN [ok |-> FALSE, text |-> content]
    ELSE [ok |-> TRUE, text |-> UpdateMetadata(SubstituteName(content, t), keys)]

update_skill_metadata(content, new_name, source_skill_name, t) ==
    UpdateWithTemplate(content, NameTemplate(new_name),
                       CustomizationKeys(source_skill_name, t))

CUSTOMIZATION_LOG == <<"C","U","S","T","O","M","I","Z","A","T","I","O","N","_","L","O","G",".","m","d">>

\* t.strftime("%Y-%m-%d %H:%M:%S")
DateTimeOf(t) ==
    DateOf(t) \o <<" ">> \o ZeroPad(Decimal(t.hour), 2) \o <<":">>
    \o ZeroPad(Decimal(t.minute), 2) \o <<":">> \o ZeroPad(Decimal(t.second), 2)

\* create_customization_log, lines 87-129: the text of the log.  The fixed
\* text that follows the version entry (lines 98-129) is one element.
CustomizationLog(source_skill_name, new_name, t) ==
    <<"#"," ","C","u","s","t","o","m","i","z","a","t","i","o","n"," ","L","o","g",":"," ">> \o new_name
    \o <<"\n","\n","#","#"," ","B","a","s","e"," ","S","k","i","l","l","\n","-"," ","*","*","S","o","u","r","c","e","*","*",":"," ">> \o source_skill_name
    \o <<"\n","-"," ","*","*","F","o","r","k","e","d"," ","o","n","*","*",":"," ">> \o DateTimeOf(t)
    \o <<"\n","\n","#","#"," ","C","u","s","t","o","m","i","z","a","t","i","o","n"," ","H","i","s","t","o","r","y","\n","\n","#","#","#"," ","V","e","r","s","i","o","n"," ","1",".","0"," ","-"," ","I","n","i","t","i","a","l"," ","F","o","r","k","\n","-"," ","C","r","e","a","t","e","d"," ","c","u","s","t","o","m","i","z","e","d"," ","v","e","r","s","i","o","n"," ","f","r","o","m"," ","BACKTICK">>
    \o source_skill_name
    \o <<"BACKTICK","\n","-"," ","R","e","a","d","y"," ","f","o","r"," ","i","t","e","r","a","t","i","v","e"," ","i","m","p","r","o","v","e","m","e","n","t","s"," ","b","a","s","e","d"," ","o","n"," ","u","s","e","r"," ","f","e","e","d","b","a","c","k","\n">>
    \o <<"\n---\n\n## How to Track Changes\n ... \n## Modification Notes\n\nAdd your customization notes here as you iterate...\n">>

---------------------------------------------------------------------------
(* fork_skill.py: the process.  fk maps each running fork to its record.   *)

FORK_PROG == <<<<"f","o","r","k","_","s","k","i","l","l",".","p","y">>>>
PATH_FLAG == <<<<"-","-","p","a","t","h">>>>

\* a command-line argument as text: its segments joined by "/"
RECURSIVE ArgText(_)
ArgText(path) ==
    IF Len(path) = 0 THEN <<>>
    ELSE IF Len(path) = 1 THEN path[1]
    ELSE path[1] \o <<"/">> \o ArgText(Tail(path))

FkIdle == [pc |-> "idle", source_path |-> NoPath, new_name |-> <<>>, output_path |-> NoPath,
           target_dir |-> NoPath, exit |-> -1, ret |-> NoPath, error |-> ""]

\* an error message, then return None / sys.exit(1)
FkFail(f, message) == [f EXCEPT !.pc = "exited", !.exit = 1, !.error = message]

\* main, lines 237-243: the format of the new name
NameError(new_name) ==
    IF ~MatchesNamePattern(new_name) THEN "must be hyphen-case (lowercase, hyphens only)"
    ELSE IF BreaksHyphenRules(new_name)
    THEN "cannot start/end with hyphen or contain consecutive hyphens"
    ELSE ""

\* main, lines 213-251
FkMainParsed(p, argv, at) ==
    IF Len(argv) < 4 \/ at = 0
    THEN fk' = [fk EXCEPT ![p] = FkFail(FkIdle, "Usage")]
    ELSE IF at + 1 > Len(argv)
    THEN fk' = [fk EXCEPT ![p] = FkFail(FkIdle, "--path flag requires an output directory")]
    ELSE \E f \in {[FkIdle EXCEPT !.source_path = argv[2], !.new_name = ArgText(argv[3]),
                                  !.output_path = argv[at + 1]]},
            e \in {NameError(ArgText(argv[3]))} :
           fk' = [fk EXCEPT ![p] = IF e # "" THEN FkFail(f, e) ELSE [f EXCEPT !.pc = "check"]]

FkMain(p, argv) ==
    /\ fk[p].pc = "idle"
    /\ fs0' = fs
    /\ val' = ValNone
    /\ FkMainParsed(p, argv, MinOr(0, {i \in 1..Len(argv) : argv[i] = PATH_FLAG}))
    /\ UNCHANGED <<fs, now, fin, fb, hist, opts>>

\* the checks on the source alone
SourcePrecondition(f, source_path, target_dir) ==
    IF ~Exists(f, source_path) THEN "Source skill not found"
    ELSE IF ~IsDir(f, source_path) THEN "Source path is not a directory"
    ELSE IF ~Exists(f, Append(source_path, SKILL_MD)) THEN "SKILL.md not found in source skill"
    ELSE ""

\* fork_skill, lines 148-174
ForkPrecondition(f, source_path, target_dir) ==
    IF ~Exists(f, source_path) THEN "Source skill not found"
    ELSE IF ~IsDir(f, source_path) THEN "Source path is not a directory"
    ELSE IF ~Exists(f, Append(source_path, SKILL_MD)) THEN "SKILL.md not found in source skill"
    ELSE IF Exists(f, target_dir) THEN "Target directory already exists"
    ELSE ""

FkCheck(p) ==
    /\ fk[p].pc = "check"
    /\ \E f \in {[fk[p] EXCEPT !.target_dir = Append(fk[p].output_path, fk[p].new_name)]} :
         \E e \in {ForkPrecondition(fs, f.source_path, f.target_dir)} :
           fk' = [fk EXCEPT ![p] = IF e # "" THEN FkFail(f, e) ELSE [f EXCEPT !.pc = "copy"]]
    /\ UNCHANGED <<fs, fs0, now, val, fin, fb, hist, opts>>

\* the path of src's entry q, moved below dst
Moved(src, dst, q) == dst \o SubSeq(q, Len(src) + 1, Len(q))

\* os.makedirs(dst, exist_ok=True), what copytree(dirs_exist_ok=True) calls:
\* an existing directory is taken as it is
MakeDirsExistOk(f, dst) ==
    IF IsFile(f, dst) THEN [ok |-> FALSE, fs |-> f] ELSE MkdirParents(f, dst)

\* shutil.copytree(src, dst) begins with os.makedirs(dst): it raises when dst
\* exists (or when a prefix of it is a file)
MakeDirs(f, dst) ==
    IF Exists(f, dst) THEN [ok |-> FALSE, fs |-> f] ELSE MkdirParents(f, dst)

\* shutil.copytree then copies the entries of src below dst, all but those in
\* skipped, the files whose copy raises: a file that is there is written
\* over, a directory that is there makes os.makedirs raise, and copytree
\* raises at the end when any entry did
CopyEntries(f, src, dst, skipped) ==
    [ok |-> /\ skipped = {}
            /\ \A x \in Under(f, src) : IsDir(f, x) => ~Exists(f, Moved(src, dst, x)),
     fs |-> [q \in DOMAIN f \cup {Moved(src, dst, x) : x \in Under(f, src) \ skipped} |->
               IF \E x \in Under(f, src) \ skipped : Moved(src, dst, x) = q /\ IsFile(f, x)
               THEN f[CHOOSE x \in Under(f, src) \ skipped : Moved(src, dst, x) = q]
               ELSE IF q \in DOMAIN f THEN f[q]
               ELSE Dir]]

\* fork_skill, lines 177-183, the first step of shutil.copytree.  fault:
\* "none"; "mkdir", os.makedirs raises for a reason of the filesystem
\* (nothing is created)
FkCopy(p, fault) ==
    /\ fk[p].pc = "copy"
    /\ \E c \in {IF fault = "mkdir" THEN [ok |-> FALSE, fs |-> fs]
                 ELSE MakeDirs(fs, fk[p].target_dir)} :
          /\ fs' = c.fs
          /\ fk' = [fk EXCEPT ![p] = IF c.ok THEN [fk[p] EXCEPT !.pc = "copying"]
                                     ELSE FkFail(fk[p], "Error copying skill directory")]
    /\ UNCHANGED <<fs0, now, val, fin, fb, hist, opts>>

\* fork_skill, lines 177-183, the rest of shutil.copytree.  fault: "none";
\* "file", the copy of one file raises (the others are copied, then copytree
\* raises)
FkCopyEntries(p, fault) ==
    /\ fk[p].pc = "copying"
    /\ \E skipped \in IF fault = "file"
                      THEN {{x} : x \in {q \in Under(fs, fk[p].source_path) : IsFile(fs, q)}}
                      ELSE {{}} :
         \E c \in {CopyEntries(fs, fk[p].source_path, fk[p].target_dir, skipped)} :
            /\ fs' = c.fs
            /\ fk' = [fk EXCEPT ![p] = IF c.ok THEN [fk[p] EXCEPT !.pc = "update"]
                                       ELSE FkFail(fk[p], "Error copying skill directory")]
    /\ UNCHANGED <<fs0, now, val, fin, fb, hist, opts>>

\* source_skill_name = source_path.name, line 167
NameOf(path) == path[Len(path)]

\* fork_skill, lines 186-192
FkUpdate(p) ==
    /\ fk[p].pc = "update"
    /\ \E md \in {Append(fk[p].target_dir, SKILL_MD)} :
         IF ~IsFile(fs, md)
         THEN /\ fs' = fs
              /\ fk' = [fk EXCEPT ![p] = FkFail(fk[p], "Error updating SKILL.md")]
         ELSE \E u \in {update_skill_metadata(fs[md].text, fk[p].new_name,
                                              NameOf(fk[p].source_path), now)} :
                IF ~u.ok
                THEN /\ fs' = fs
                     /\ fk' = [fk EXCEPT ![p] = FkFail(fk[p], "Error updating SKILL.md")]
                ELSE /\ fs' = Put(fs, md, File(u.text))
                     /\ fk' = [fk EXCEPT ![p].pc = "log"]
    /\ UNCHANGED <<fs0, now, val, fin, fb, hist, opts>>

\* fork_skill, lines 195-209.  fault "log": write_text raises, a warning only
FkLog(p, fault) ==
    /\ fk[p].pc = "log"
    /\ fs' = IF fault = "log" \/ ~IsDir(fs, fk[p].target_dir) THEN fs
             ELSE Put(fs, Append(fk[p].target_dir, CUSTOMIZATION_LOG),
                      File(CustomizationLog(NameOf(fk[p].source_path), fk[p].new_name, now)))
    /\ fk' = [fk EXCEPT ![p] = [fk[p] EXCEPT !.pc = "exited", !.exit = 0,
                                             !.ret = fk[p].target_dir]]
    /\ UNCHANGED <<fs0, now, val, fin, fb, hist, opts>>

---------------------------------------------------------------------------
(* track_feedback.py                                                       *)

FEEDBACK_MD == <<"F","E","E","D","B","A","C","K",".","m","d">>

FEEDBACK_TEMPLATE ==
    <<"#"," ","S","k","i","l","l"," ","F","e","e","d","b","a","c","k"," ","L","o","g","\n","\n","T","h","i","s"," ","f","i","l","e"," ","t","r","a","c","k","s"," ","u","s","e","r"," ","f","e","e","d","b","a","c","k"," ","a","n","d"," ","c","u","s","t","o","m","i","z","a","t","i","o","n"," ","n","e","e","d","s"," ","f","o","r"," ","i","t","e","r","a","t","i","v","e"," ","s","k","i","l","l"," ","i","m","p","r","o","v","e","m","e","n","t",".","\n","\n","-","-","-","\n">>

ENTRY_HEADER == <<"#","#"," ","F","e","e","d","b","a","c","k"," ","E","n","t","r","y"," ","#">>

\* t.strftime("%Y-%m-%d %H:%M")
MinuteOf(t) ==
    DateOf(t) \o <<" ">> \o ZeroPad(Decimal(t.hour), 2) \o <<":">> \o ZeroPad(Decimal(t.minute), 2)

\* FEEDBACK_ENTRY_TEMPLATE.format(...), lines 36-59 and 148-157
FeedbackEntry(entry_num, t, feedback) ==
    <<"\n">> \o ENTRY_HEADER \o Decimal(entry_num) \o <<" ","-"," ">> \o MinuteOf(t)
    \o <<"\n","\n","#","#","#"," ","T","a","s","k"," ","C","o","n","t","e","x","t","\n","*","*","W","h","a","t"," ","w","e","r","e"," ","y","o","u"," ","t","r","y","i","n","g"," ","t","o"," ","a","c","c","o","m","p","l","i","s","h","?","*","*","\n">>
    \o feedback.task_description
    \o <<"\n","\n","#","#","#"," ","W","h","a","t"," ","W","o","r","k","e","d"," ","W","e","l","l","\n">> \o feedback.what_worked
    \o <<"\n","\n","#","#","#"," ","W","h","a","t"," ","D","i","d","n","'","t"," ","M","a","t","c","h"," ","E","x","p","e","c","t","a","t","i","o","n","s","\n">> \o feedback.what_didnt_work
    \o <<"\n","\n","#","#","#"," ","S","p","e","c","i","f","i","c"," ","P","r","e","f","e","r","e","n","c","e","s","/","R","e","q","u","i","r","e","m","e","n","t","s","\n">> \o feedback.preferences
    \o <<"\n","\n","#","#","#"," ","S","u","g","g","e","s","t","e","d"," ","I","m","p","r","o","v","e","m","e","n","t","s","\n">> \o feedback.improvements
    \o <<"\n","\n","#","#","#"," ","P","r","i","o","r","i","t","y","\n">> \o feedback.priority
    \o <<"\n","\n","-","-","-","\n">>

\* input(...).strip(), and "N/A" for an empty answer, lines 84-86
OrNA(answer) == IF Strip(answer) = <<>> THEN <<"N","/","A">> ELSE Strip(answer)

PriorityWords == {<<"c","r","i","t","i","c","a","l">>, <<"h","i","g","h">>, <<"m","e","d","i","u","m">>, <<"l","o","w">>}

\* lines 116-119
PriorityOf(answer) ==
    Capitalize(IF Lower(Strip(answer)) \in PriorityWords THEN Lower(Strip(answer))
               ELSE <<"m","e","d","i","u","m">>)

\* collect_feedback_interactive, lines 73-122, on the six answers
collect_feedback_interactive(answers) ==
    [task_description |-> Strip(answers.task_description),
     what_worked |-> OrNA(answers.what_worked),
     what_didnt_work |-> OrNA(answers.what_didnt_work),
     preferences |-> OrNA(answers.preferences),
     improvements |-> OrNA(answers.improvements),
     priority |-> PriorityOf(answers.priority)]

\* lines 139-145: the number of the new entry
EntryNum(f, feedback_path) ==
    IF ~Exists(f, feedback_path) THEN 1
    ELSE Count(f[feedback_path].text, ENTRY_HEADER) + 1

\* lines 139-140: the log, created when it is not there
Created(f, feedback_path) ==
    IF ~Exists(f, feedback_path) THEN Put(f, feedback_path, File(FEEDBACK_TEMPLATE)) ELSE f

\* open(feedback_path, 'a').write(entry), lines 160-161
Appended(f, feedback_path, entry) ==
    Put(f, feedback_path, File(f[feedback_path].text \o entry))

NoFeedback == [task_description |-> <<>>, what_worked |-> <<>>, what_didnt_work |-> <<>>,
               preferences |-> <<>>, improvements |-> <<>>, priority |-> <<>>]

FbIdle == [pc |-> "idle", skill_path |-> NoPath, answers |-> NoFeedback,
           feedback |-> NoFeedback, entry_num |-> 0, exit |-> -1]

FbExit(f, code) == [f EXCEPT !.pc = "exited", !.exit = code]

\* main, lines 204-226
FbMain(argv) ==
    /\ fb.pc = "idle"
    /\ Len(hist) < MaxFeedbackRuns
    /\ fs0' = fs
    /\ val' = ValNone
    /\ fb' = IF Len(argv) < 2 THEN FbExit(FbIdle, 1)
             ELSE IF \/ ~Exists(fs, argv[2])
                     \/ ~IsDir(fs, argv[2])
                     \/ ~Exists(fs, Append(argv[2], SKILL_MD))
             THEN FbExit([FbIdle EXCEPT !.skill_path = argv[2]], 1)
             ELSE [FbIdle EXCEPT !.pc = "collect", !.skill_path = argv[2]]
    /\ UNCHANGED <<fs, now, fin, fk, hist, opts>>

\* main, line 229
FbCollect(answers) ==
    /\ fb.pc = "collect"
    /\ fb' = [fb EXCEPT !.pc = "save", !.answers = answers,
                        !.feedback = collect_feedback_interactive(answers)]
    /\ UNCHANGED <<fs, fs0, now, val, fin, fk, hist, opts>>

\* save_feedback, lines 136-163, and main, lines 232-253.  fault: "none";
\* "create", write_text raises; "append", the append raises after the log
\* was created.  The analysis that follows only reads.
FbSave(fault) ==
    /\ fb.pc = "save"
    /\ \E feedback_path \in {Append(fb.skill_path, FEEDBACK_MD)} :
         \E entry_num \in {EntryNum(fs, feedback_path)} :
           IF fault = "create"
           THEN /\ ~Exists(fs, feedback_path)
                /\ fs' = fs
                /\ fb' = FbExit(fb, 1)
           ELSE IF fault = "append"
           THEN /\ fs' = Created(fs, feedback_path)
                /\ fb' = FbExit(fb, 1)
           ELSE /\ fs' = Appended(Created(fs, feedback_path), feedback_path,
                                  FeedbackEntry(entry_num, now, fb.feedback))
                /\ fb' = FbExit([fb EXCEPT !.entry_num = entry_num], 0)
    /\ UNCHANGED <<fs0, now, val, fin, fk, hist, opts>>

\* what the history keeps of a recording
FbRecord(f) == [tool |-> "feedback", exit |-> f.exit, entry_num |-> f.entry_num,
                answers |-> f.answers, feedback |-> f.feedback]

FbReap ==
    /\ fb.pc = "exited"
    /\ hist' = Append(hist, FbRecord(fb))
    /\ fb' = FbIdle
    /\ UNCHANGED <<fs, fs0, now, val, fin, fk, opts>>

\* a direct call of validate_skill(skill_path), made while no tool runs
ValidateCall(skill_path) ==
    /\ fin.pc = "idle"
    /\ \A p \in DOMAIN fk : fk[p].pc \in {"idle", "exited"}
    /\ fb.pc = "idle"
    /\ val' = [called |-> TRUE, path |-> skill_path, result |-> validate_skill(fs, skill_path)]
    /\ UNCHANGED <<fs, fs0, now, fin, fk, fb, hist, opts>>

---------------------------------------------------------------------------
(* The session of the finalizer: one skill directory foo in the working    *)
(* directory, in every shape the checks tell apart.                        *)

FOO == <<"f","o","o">>
NOPE == <<"n","o","p","e">>
DIST == <<"d","i","s","t">>

FinContents == {
    <<"-","-","-","\n","n","a","m","e",":"," ","f","o","o","\n","d","e","s","c","r","i","p","t","i","o","n",":"," ","d","\n","-","-","-","\n","b","o","d","y","\n">>,
    <<"-","-","-","\n","d","e","s","c","r","i","p","t","i","o","n",":"," ","d","\n","n","a","m","e",":"," ","f","o","o","\n","m","e","t","a","d","a","t","a",":","\n"," "," ","x",":"," ","1","\n","-","-","-">>,
    <<"-","-","-","\n","d","e","s","c","r","i","p","t","i","o","n",":"," ","d","\n","n","a","m","e",":","\n","-","-","-","\n">>,
    <<"n","a","m","e",":"," ","f","o","o","\n","d","e","s","c","r","i","p","t","i","o","n",":"," ","d","\n">>,
    <<>>,
    <<"-","-","-","\n","n","a","m","e",":"," ","f","o","o","\n","d","e","s","c","r","i","p","t","i","o","n",":"," ","d","\n">>,
    <<"-","-","-","-","\n","n","a","m","e",":"," ","f","o","o","\n","d","e","s","c","r","i","p","t","i","o","n",":"," ","d","\n","-","-","-","\n">>,
    <<"-","-","-","\n","d","e","s","c","r","i","p","t","i","o","n",":"," ","d","\n","-","-","-","\n">>,
    <<"-","-","-","\n","n","a","m","e",":"," ","f","o","o","\n","-","-","-","\n">>,
    <<"-","-","-","\n","t","i","t","l","e",":"," ","x","\n","-","-","-","\n">>,
    <<"-","-","-","\n","d","e","s","c","r","i","p","t","i","o","n",":"," ","d","\n","-","-","-","\n","n","a","m","e",":"," ","x","\n","-","-","-","\n">>,
    <<"-","-","-","\n","n","a","m","e",":"," ","F","o","o","\n","d","e","s","c","r","i","p","t","i","o","n",":"," ","d","\n","-","-","-","\n">>,
    <<"-","-","-","\n","n","a","m","e",":"," ","-","f","o","o","\n","d","e","s","c","r","i","p","t","i","o","n",":"," ","d","\n","-","-","-","\n">>,
    <<"-","-","-","\n","n","a","m","e",":"," ","f","o","-","-","o","\n","d","e","s","c","r","i","p","t","i","o","n",":"," ","d","\n","-","-","-","\n">>,
    <<"-","-","-","\n","n","a","m","e",":"," ","f","o","o","-","\n","d","e","s","c","r","i","p","t","i","o","n",":"," ","d","\n","-","-","-","\n">>,
    <<"-","-","-","\n","n","a","m","e",":"," ","-","F","o","o","\n","d","e","s","c","r","i","p","t","i","o","n",":"," ","d","\n","-","-","-","\n">>,
    <<"-","-","-","\n","n","a","m","e",":"," ","-","F","o","o","\n","-","-","-","\n">>,
    <<"-","-","-","\n","n","a","m","e",":","\n","d","e","s","c","r","i","p","t","i","o","n",":"," ","d","\n","-","-","-","\n">>,
    <<"-","-","-","\n","n","a","m","e",":"," ","f","o","o","\n","d","e","s","c","r","i","p","t","i","o","n",":","\n","-","-","-","\n">> }

RootOnly == (<<>> :> Dir)

\* a skill directory: scripts/run.py, an empty assets/, and SKILL.md when given
SkillTree(skill_path, withMd, content) ==
    LET base == (skill_path :> Dir)
                @@ (Append(skill_path, <<"s","c","r","i","p","t","s">>) :> Dir)
                @@ (skill_path \o <<<<"s","c","r","i","p","t","s">>, <<"r","u","n",".","p","y">>>> :> File(<<"p","r","i","n","t","(","1",")","\n">>))
                @@ (Append(skill_path, <<"a","s","s","e","t","s">>) :> Dir)
    IN  IF withMd THEN base @@ (Append(skill_path, SKILL_MD) :> File(content)) ELSE base

FinFilesystems ==
    {RootOnly, RootOnly @@ (<<FOO>> :> File(<<"n","o","t"," ","a"," ","d","i","r","e","c","t","o","r","y">>))}
    \cup {RootOnly @@ SkillTree(<<FOO>>, FALSE, <<>>)}
    \cup {RootOnly @@ SkillTree(<<FOO>>, TRUE, c) : c \in FinContents}

\* --output: not given, a directory that does not exist yet, a directory
\* inside the skill directory itself
FinOutputs == {NoPath, <<DIST, <<"v","1">>>>, <<FOO, <<"p","k","g">>>>}

FinSkillArgs == {<<FOO>>, <<NOPE>>, <<FOO, SKILL_MD>>}

FinArgvs(out) ==
    {PROG} \cup {<<PROG[1], s>> : s \in FinSkillArgs}
    \cup {<<PROG[1], s, OUTPUT_FLAG>> : s \in {<<FOO>>}}
    \cup (IF out = NoPath THEN {} ELSE {<<PROG[1], <<FOO>>, OUTPUT_FLAG, out>>})

Responses == {<<"y","e","s">>, <<"y">>, <<" ","Y","E","S"," ">>, <<"Y">>, <<"n","o">>, <<>>, <<"y","e","a","h">>}

PackageFaults == {"none", "mkdir", "open", "write"}

InitFinalize ==
    /\ fs \in FinFilesystems
    /\ fs0 = fs
    /\ now = DateTime(2024, 1, 2, 3, 4, 5)
    /\ val = ValNone
    /\ fin = FinIdle
    /\ fk = <<>>
    /\ fb = FbIdle
    /\ hist = <<>>
    /\ opts \in {[out |-> o, names |-> {}] : o \in FinOutputs}

NextFinalize ==
    \/ \E argv \in FinArgvs(opts.out) : FinMain(argv)
    \/ FinDirCheck
    \/ \E response \in Responses : FinConfirm(response)
    \/ FinValidate
    \/ \E fault \in PackageFaults : FinPackage(fault)
    \/ FinReap
    \/ Tick
    \/ \E p \in FinSkillArgs : ValidateCall(p)

SpecFinalize == InitFinalize /\ [][NextFinalize]_vars

---------------------------------------------------------------------------
(* The sessions of the forker: one invocation of fork_skill.py on a source *)
(* skill pdf, into the directory out.                                      *)

PDF == <<"p","d","f">>
OUT == <<"o","u","t">>

NameAlphabet == {"a", "-", "1", "A"}

\* every text over the alphabet of at most MaxNameLen characters
AllNames == UNION {[1..n -> NameAlphabet] : n \in 0..MaxNameLen}

PlainContent == <<"-","-","-","\n","n","a","m","e",":"," ","p","d","f","\n","d","e","s","c","r","i","p","t","i","o","n",":"," ","d","\n","-","-","-","\n","b","o","d","y"," ","n","a","m","e",":"," ","z","z","\n">>

FkContents == {
    PlainContent,
    <<"-","-","-","\n","n","a","m","e",":"," ","p","d","f","\n","d","e","s","c","r","i","p","t","i","o","n",":"," ","d","\n","m","e","t","a","d","a","t","a",":","\n"," "," ","c","u","s","t","o","m","i","z","e","d","-","f","r","o","m",":"," ","o","l","d","\n"," "," ","c","u","s","t","o","m","i","z","a","t","i","o","n","-","d","a","t","e",":"," ","2","0","2","3","-","0","1","-","0","1","\n","-","-","-","\n">>,
    <<"-","-","-","\n","n","a","m","e",":"," ","p","d","f","\n","d","e","s","c","r","i","p","t","i","o","n",":"," ","d","\n","m","e","t","a","d","a","t","a",":","\n"," "," ","x",":"," ","1","\n","-","-","-","\n">>,
    <<"-","-","-","\n","d","e","s","c","r","i","p","t","i","o","n",":"," ","n","a","m","e",":"," ","o","k","\n","n","a","m","e",":"," ","p","d","f","\n","-","-","-","\n">>,
    <<"-","-","-","\n","d","e","s","c","r","i","p","t","i","o","n",":"," ","d","\n","n","a","m","e",":","\n","-","-","-","\n","b","o","d","y","\n">>,
    <<"-","-","-","\n","n","a","m","e",":"," ","p","d","f","\n","d","e","s","c","r","i","p","t","i","o","n",":"," ","a","b","o","u","t"," ","m","e","t","a","d","a","t","a",":"," ","x","\n","-","-","-","\n">>,
    <<"-","-","-","\n","d","e","s","c","r","i","p","t","i","o","n",":"," ","d","\n","-","-","-","\n","-","-","-","\n","d","e","s","c","r","i","p","t","i","o","n",":"," ","d","\n","-","-","-","\n">>,
    <<"n","a","m","e",":"," ","p","d","f","\n">>,
    <<>> }

Keep == <<"k","e","e","p",".","t","x","t">>

\* the destination, taken by a skill named a
Taken_a == (<<OUT, <<"a">>>> :> Dir) @@ (<<OUT, <<"a">>, Keep>> :> File(<<"m","i","n","e">>))

ForkFilesystems ==
    {RootOnly @@ (<<OUT>> :> Dir) @@ SkillTree(<<PDF>>, TRUE, c) : c \in FkContents}
    \cup {RootOnly @@ SkillTree(<<PDF>>, TRUE, PlainContent),
          RootOnly @@ (<<OUT>> :> File(<<"a"," ","f","i","l","e">>)) @@ SkillTree(<<PDF>>, TRUE, PlainContent),
          RootOnly @@ (<<OUT>> :> Dir) @@ Taken_a @@ SkillTree(<<PDF>>, TRUE, PlainContent),
          RootOnly @@ (<<OUT>> :> Dir) @@ Taken_a @@ SkillTree(<<PDF>>, FALSE, <<>>),
          RootOnly @@ (<<OUT>> :> Dir) @@ SkillTree(<<PDF>>, TRUE, PlainContent)
              @@ (<<PDF, CUSTOMIZATION_LOG>> :> File(<<"#"," ","m","y"," ","n","o","t","e","s","\n">>)),
          RootOnly @@ (<<OUT>> :> Dir) @@ (<<PDF>> :> File(<<"n","o","t"," ","a"," ","d","i","r","e","c","t","o","r","y">>)),
          RootOnly @@ (<<OUT>> :> Dir)}

ForkArgvs(names) ==
    {<<FORK_PROG[1], <<PDF>>, <<n>>, PATH_FLAG, <<OUT>>>> : n \in names}
    \cup {FORK_PROG, <<FORK_PROG[1], <<PDF>>, PATH_FLAG, <<OUT>>>>,
          <<FORK_PROG[1], <<PDF>>, <<<<"a","b">>>>, <<OUT>>>>,
          <<FORK_PROG[1], <<PDF>>, <<<<"a","b">>>>, PATH_FLAG>>,
          <<FORK_PROG[1], <<PDF>>, <<OUT, <<"a","b">>>>, PATH_FLAG, <<OUT>>>>}

MkdirFaults == {"none", "mkdir"}
CopyFaults == {"none", "file"}
LogFaults == {"none", "log"}

InitFork ==
    /\ fs \in ForkFilesystems
    /\ fs0 = fs
    /\ now = DateTime(2024, 1, 2, 3, 4, 5)
    /\ val = ValNone
    /\ fin = FinIdle
    /\ fk = <<FkIdle>>
    /\ fb = FbIdle
    /\ hist = <<>>
    /\ opts = [out |-> <<OUT>>, names |-> AllNames]

NextFork ==
    \/ \E p \in DOMAIN fk, argv \in ForkArgvs(opts.names) : FkMain(p, argv)
    \/ \E p \in DOMAIN fk : FkCheck(p)
    \/ \E p \in DOMAIN fk, fault \in MkdirFaults : FkCopy(p, fault)
    \/ \E p \in DOMAIN fk, fault \in CopyFaults : FkCopyEntries(p, fault)
    \/ \E p \in DOMAIN fk : FkUpdate(p)
    \/ \E p \in DOMAIN fk, fault \in LogFaults : FkLog(p, fault)
    \/ \E path \in {<<PDF>>} \cup {fk[p].target_dir : p \in DOMAIN fk} : ValidateCall(path)

SpecFork == InitFork /\ [][NextFork]_vars

---------------------------------------------------------------------------
(* Two invocations of fork_skill.py at the same time, on the source pdf    *)
(* and into out, beside another party that makes the directory out/a.      *)

RaceNames == {<<"a">>, <<"b">>}

\* the other party: it makes out/a with its file keep.txt when there is no
\* out/a
CreateTarget ==
    /\ ~Exists(fs, <<OUT, <<"a">>>>)
    /\ IsDir(fs, <<OUT>>)
    /\ fs' = fs @@ Taken_a
    /\ UNCHANGED <<fs0, now, val, fin, fk, fb, hist, opts>>

InitRace ==
    /\ fs = RootOnly @@ (<<OUT>> :> Dir) @@ SkillTree(<<PDF>>, TRUE, PlainContent)
    /\ fs0 = fs
    /\ now = DateTime(2024, 1, 2, 3, 4, 5)
    /\ val = ValNone
    /\ fin = FinIdle
    /\ fk = <<FkIdle, FkIdle>>
    /\ fb = FbIdle
    /\ hist = <<>>
    /\ opts = [out |-> <<OUT>>, names |-> RaceNames]

NextRace ==
    \/ \E p \in DOMAIN fk, argv \in ForkArgvs(opts.names) : FkMain(p, argv)
    \/ \E p \in DOMAIN fk : FkCheck(p)
    \/ \E p \in DOMAIN fk : FkCopy(p, "none")
    \/ \E p \in DOMAIN fk : FkCopyEntries(p, "none")
    \/ \E p \in DOMAIN fk : FkUpdate(p)
    \/ \E p \in DOMAIN fk : FkLog(p, "none")
    \/ CreateTarget

SpecRace == InitRace /\ [][NextRace]_vars

---------------------------------------------------------------------------
(* The same tools on a skill pdf whose SKILL.md declares the name n, n any *)
(* text over the alphabet, with n also the new name given to the forker.   *)

\* the layouts of a header that declares the name n
NameLayouts(n) ==
    {<<"-","-","-","\n","n","a","m","e",":"," ">> \o n \o <<"\n","d","e","s","c","r","i","p","t","i","o","n",":"," ","d","\n","-","-","-","\n","b","o","d","y","\n">>,
     <<"-","-","-","\n","d","e","s","c","r","i","p","t","i","o","n",":"," ","d","\n","n","a","m","e",":"," ">> \o n \o <<"\n","-","-","-","\n">>,
     <<"-","-","-","\n","d","i","s","p","l","a","y","-","n","a","m","e",":"," ","o","k","\n","n","a","m","e",":"," ">> \o n \o <<"\n","d","e","s","c","r","i","p","t","i","o","n",":"," ","d","\n","-","-","-","\n">>}

InitName ==
    /\ \E n \in AllNames :
         /\ opts = [out |-> <<OUT>>, names |-> {n}]
         /\ fs \in {RootOnly @@ (<<OUT>> :> Dir) @@ SkillTree(<<PDF>>, TRUE, c) :
                        c \in NameLayouts(n)}
    /\ fs0 = fs
    /\ now = DateTime(2024, 1, 2, 3, 4, 5)
    /\ val = ValNone
    /\ fin = FinIdle
    /\ fk = <<FkIdle>>
    /\ fb = FbIdle
    /\ hist = <<>>

SpecName == InitName /\ [][NextFork]_vars

---------------------------------------------------------------------------
(* The session of the feedback recorder: recordings against the skill      *)
(* directory foo, one after the other.                                     *)

FB_PROG == <<<<"t","r","a","c","k","_","f","e","e","d","b","a","c","k",".","p","y">>>>

ValidContent == <<"-","-","-","\n","n","a","m","e",":"," ","f","o","o","\n","d","e","s","c","r","i","p","t","i","o","n",":"," ","d","\n","-","-","-","\n","b","o","d","y","\n">>

FeedbackFilesystems ==
    {RootOnly @@ SkillTree(<<FOO>>, TRUE, ValidContent),
     RootOnly @@ SkillTree(<<FOO>>, FALSE, <<>>),
     RootOnly @@ (<<FOO>> :> File(<<"n","o","t"," ","a"," ","d","i","r","e","c","t","o","r","y">>)),
     RootOnly}

FeedbackArgvs == {FB_PROG, <<FB_PROG[1], <<FOO>>>>}

Answers(task, others, priority) ==
    [task_description |-> task, what_worked |-> others, what_didnt_work |-> <<>>,
     preferences |-> others, improvements |-> <<>>, priority |-> priority]

\* the answers of the operator: any text; one task description quotes a
\* header of the log
FeedbackAnswers ==
    {Answers(<<"e","x","t","r","a","c","t"," ","t","a","b","l","e","s">>, <<>>, <<"h","i","g","h">>),
     Answers(<<"e","x","t","r","a","c","t"," ","t","a","b","l","e","s">>, <<" ","f","a","s","t"," ">>, <<" ","L","O","W"," ">>),
     Answers(<<" ","m","e","r","g","e"," ","f","i","l","e","s"," ">>, <<>>, <<>>),
     Answers(<<"m","e","r","g","e"," ","f","i","l","e","s">>, <<" ","f","a","s","t"," ">>, <<"u","r","g","e","n","t">>),
     Answers(<<>>, <<>>, <<"C","r","i","t","i","c","a","l">>),
     Answers(<<"#","#"," ","F","e","e","d","b","a","c","k"," ","E","n","t","r","y"," ","#","7"," ","-"," ","s","e","e"," ","a","b","o","v","e">>, <<>>, <<"m","e","d","i","u","m">>),
     Answers(<<"#","#"," ","F","e","e","d","b","a","c","k"," ","E","n","t","r","y"," ","#","7"," ","-"," ","s","e","e"," ","a","b","o","v","e">>, <<" ","f","a","s","t"," ">>, <<"H","I","G","H">>)}

SaveFaults == {"none", "create", "append"}

InitFeedback ==
    /\ fs \in FeedbackFilesystems
    /\ fs0 = fs
    /\ now = DateTime(2024, 1, 2, 3, 4, 5)
    /\ val = ValNone
    /\ fin = FinIdle
    /\ fk = <<>>
    /\ fb = FbIdle
    /\ hist = <<>>
    /\ opts = [out |-> NoPath, names |-> {}]

NextFeedback ==
    \/ \E argv \in FeedbackArgvs : FbMain(argv)
    \/ \E answers \in FeedbackAnswers : FbCollect(answers)
    \/ \E fault \in SaveFaults : FbSave(fault)
    \/ FbReap

SpecFeedback == InitFeedback /\ [][NextFeedback]_vars

---------------------------------------------------------------------------
(* Properties of the finalizer                                             *)

\* the answers of Responses that are yes or y, whatever their case
YesAnswers == {<<"y","e","s">>, <<"y">>, <<" ","Y","E","S"," ">>, <<"Y">>}

AllSteps == <<"dircheck", "confirm", "validate", "package">>

\* C1: in every run of the Finalizer the filesystem changes (an archive or an
\* output directory appears) only after the operator answered yes or y and
\* the Validator passed the skill directory in this run; a run that ended on
\* a failed directory check, on any other answer or on a failed validation
\* left no archive and the filesystem as it found it.
C1_ArchiveOnlyAfterYesAndPass ==
    /\ (fin.pc # "idle" /\ fs # fs0) =>
          /\ fin.prompted
          /\ fin.response \in YesAnswers
          /\ fin.result.valid
          /\ validate_skill(fs0, fin.skill_path).valid
          /\ fin.steps = AllSteps
    /\ (/\ fin.pc = "exited"
        /\ \/ ~IsDir(fs0, fin.skill_path)
           \/ fin.prompted /\ fin.response \notin YesAnswers
           \/ ~validate_skill(fs0, fin.skill_path).valid) =>
          /\ fs = fs0
          /\ fin.zip = NoPath
          /\ fin.exit = 1

\* a run that wrote an archive after the answer " YES "
C1_Witness ==
    /\ fin.pc = "exited"
    /\ fin.response = <<" ","Y","E","S"," ">>
    /\ fin.zip # NoPath
    /\ ~Exists(fs0, fin.zip)
    /\ IsFile(fs, fin.zip)

\* C9: the Finalizer exits with 0 exactly when the directory check, the
\* confirmation, the validation and the packaging all ran, in that order, and
\* the packaging gave an archive; every abort ends the run at the step that
\* failed with exit status 1, and a failed directory check asks nothing.
C9_ExitStatus ==
    /\ fin.pc \notin {"idle", "exited"} => fin.exit = -1
    /\ fin.pc = "exited" =>
          /\ fin.exit \in {0, 1}
          /\ fin.exit = 0 <=> (fin.steps = AllSteps /\ fin.zip # NoPath /\ IsFile(fs, fin.zip))
          /\ fin.steps = SubSeq(AllSteps, 1, Len(fin.steps))
          /\ (fin.steps # <<>> /\ ~IsDir(fs0, fin.skill_path)) =>
                fin.steps = <<"dircheck">> /\ ~fin.prompted /\ fin.exit = 1
          /\ (fin.prompted /\ fin.response \notin YesAnswers) =>
                fin.steps = <<"dircheck", "confirm">> /\ fin.exit = 1
          /\ (Len(fin.steps) >= 3 /\ ~fin.result.valid) =>
                fin.steps = <<"dircheck", "confirm", "validate">> /\ fin.exit = 1
          /\ fin.skill_path = NoPath => fin.steps = <<>> /\ fin.exit = 1

\* a run that went through every step and ended on a packaging error
C9_Witness ==
    /\ fin.pc = "exited"
    /\ fin.steps = AllSteps
    /\ fin.exit = 1

\* The checks of the Validator in the order the specification lists them, and
\* the message of each.
CheckMessages ==
    <<"Skill directory not found",
      "Path is not a directory",
      "SKILL.md not found in skill directory",
      "SKILL.md missing YAML frontmatter",
      "Invalid YAML frontmatter format",
      "Missing 'name' in frontmatter",
      "Missing 'description' in frontmatter",
      "Name should be hyphen-case (lowercase, hyphens only)",
      "Name cannot start/end with hyphen or contain consecutive hyphens">>

MetadataOf(f, p) == f[Append(p, SKILL_MD)].text

HeaderOf(content) ==
    SubSeq(content, FrontmatterMatch(content).from, FrontmatterMatch(content).to)

\* the value of the name declaration of a header, <<>> when it has none
DeclaredName(header) ==
    IF NameMatch(header).found
    THEN Strip(SubSeq(header, NameMatch(header).mid, NameMatch(header).to))
    ELSE <<>>

HyphenBroken(n) ==
    /\ n # <<>>
    /\ \/ n[1] = "-"
       \/ n[Len(n)] = "-"
       \/ \E i \in 1..(Len(n) - 1) : n[i] = "-" /\ n[i + 1] = "-"

\* check i passes path p; it is asked only of a path that passes the checks
\* before it
Passes(i, f, p) ==
    CASE i = 1 -> p \in DOMAIN f
      [] i = 2 -> f[p].kind = "dir"
      [] i = 3 -> Append(p, SKILL_MD) \in DOMAIN f
      [] i = 4 -> Len(MetadataOf(f, p)) >= 3 /\ SubSeq(MetadataOf(f, p), 1, 3) = <<"-","-","-">>
      [] i = 5 -> FrontmatterMatch(MetadataOf(f, p)).found
      [] i = 6 -> Contains(HeaderOf(MetadataOf(f, p)), <<"n","a","m","e",":">>)
      [] i = 7 -> Contains(HeaderOf(MetadataOf(f, p)), <<"d","e","s","c","r","i","p","t","i","o","n",":">>)
      [] i = 8 -> NameMatch(HeaderOf(MetadataOf(f, p))).found =>
                     /\ DeclaredName(HeaderOf(MetadataOf(f, p))) # <<>>
                     /\ \A k \in DOMAIN DeclaredName(HeaderOf(MetadataOf(f, p))) :
                            DeclaredName(HeaderOf(MetadataOf(f, p)))[k] \in LowerAlnumHyphen
      [] i = 9 -> ~HyphenBroken(DeclaredName(HeaderOf(MetadataOf(f, p))))

\* the first check from i on that p fails, 0 when it passes them all
RECURSIVE FirstFailing(_, _, _)
FirstFailing(i, f, p) ==
    IF i > Len(CheckMessages) THEN 0
    ELSE IF ~Passes(i, f, p) THEN i
    ELSE FirstFailing(i + 1, f, p)

\* r is the verdict the order of the checks asks for
VerdictInOrder(r, f, p) ==
    IF FirstFailing(1, f, p) = 0 THEN r.valid
    ELSE ~r.valid /\ r.message = CheckMessages[FirstFailing(1, f, p)]

\* C8: the Validator fails with the message of the first check, in the order
\* path exists, is a directory, metadata file exists, header delimiters, name
\* present, description present, name pattern, hyphen rules, that the path
\* fails, and passes a path that fails none; a Finalizer run on a skill
\* directory without a metadata file gets the message naming the missing
\* file and never reaches packaging.
C8_FirstFailingCheck ==
    /\ val.called => VerdictInOrder(val.result, fs, val.path)
    /\ (fin.pc \in {"package", "exited"} /\ Len(fin.steps) >= 3) =>
          /\ VerdictInOrder(fin.result, fs0, fin.skill_path)
          /\ ~Exists(fs0, Append(fin.skill_path, SKILL_MD)) =>
                /\ fin.result.message = "SKILL.md not found in skill directory"
                /\ fin.pc = "exited"
                /\ fin.steps = <<"dircheck", "confirm", "validate">>
                /\ fin.zip = NoPath
                /\ fs = fs0

\* a confirmed run on a skill directory that holds no SKILL.md
C8_Witness ==
    /\ fin.pc = "exited"
    /\ fin.response \in YesAnswers
    /\ IsDir(fs0, fin.skill_path)
    /\ ~Exists(fs0, Append(fin.skill_path, SKILL_MD))
    /\ fin.result.message = "SKILL.md not found in skill directory"

Front(path) == SubSeq(path, 1, Len(path) - 1)

\* C6: two confirmed, valid runs of the Finalizer on the same unmodified
\* skill directory, with the same output directory, leave two archives whose
\* names differ, the first one as the first run wrote it, and both with the
\* same entries.
C6_TwoDistinctArchives ==
    (/\ Len(hist) = 2
     /\ hist[1].exit = 0
     /\ hist[2].exit = 0
     /\ hist[1].tree = hist[2].tree
     /\ Front(hist[1].zip) = Front(hist[2].zip)) =>
        /\ hist[1].zip # hist[2].zip
        /\ Exists(fs, hist[1].zip)
        /\ fs[hist[1].zip] = hist[1].archive
        /\ hist[1].archive.entries = hist[2].archive.entries

\* the stamp of each time of Times, written out
StampWritten(t) ==
    IF t = DateTime(2024, 1, 2, 3, 4, 5) THEN <<"2","0","2","4","0","1","0","2","-","0","3","0","4","0","5">>
    ELSE IF t = DateTime(2025, 11, 12, 13, 14, 15) THEN <<"2","0","2","5","1","1","1","2","-","1","3","1","4","1","5">>
    ELSE <<>>

\* the regular files that the skill directory held when the run began, each
\* by its path from the parent of the skill directory
SkillFiles(f, skill_path) ==
    {SubSeq(q, Len(skill_path), Len(q)) :
        q \in {x \in DOMAIN f : IsPrefix(skill_path, x) /\ x # skill_path /\ f[x].kind = "file"}}

\* C10: a run that packaged the skill directory N at time T wrote
\* N-<T as YYYYMMDD-HHMMSS>.zip in the output directory (the working
\* directory when none was given), with exactly one entry for each regular
\* file of the skill directory and every entry below the top-level N.
C10_ArchiveNameAndEntries ==
    (fin.pc = "exited" /\ fin.exit = 0) =>
        /\ fin.zip = Append(fin.output_dir,
                            fin.skill_path[Len(fin.skill_path)] \o <<"-">>
                            \o StampWritten(fin.at) \o <<".","z","i","p">>)
        /\ fs[fin.zip].kind = "zip"
        /\ {e.arcname : e \in fs[fin.zip].entries} = SkillFiles(fs0, fin.skill_path)
        /\ Cardinality(fs[fin.zip].entries) = Cardinality(SkillFiles(fs0, fin.skill_path))
        /\ \A e \in fs[fin.zip].entries : e.arcname[1] = fin.skill_path[Len(fin.skill_path)]

---------------------------------------------------------------------------
(* Properties of the forker                                                *)

\* a name the name check is to accept
NameAccepted(n) ==
    /\ n # <<>>
    /\ \A k \in DOMAIN n : n[k] \in LowerAlnumHyphen
    /\ ~HyphenBroken(n)

\* the line of text that holds its first "name:", from there on
FirstNameLine(text) ==
    IF Find(text, <<"n","a","m","e",":">>, 1) = 0 THEN <<>>
    ELSE SubSeq(text, Find(text, <<"n","a","m","e",":">>, 1), LineEnd(text, Find(text, <<"n","a","m","e",":">>, 1)))

COPY_ERROR == "Error copying skill directory"

\* C2: a fork of a source directory that holds SKILL.md, under a name the
\* name check accepts, into a target that does not exist (and with no copy
\* that the filesystem fails) succeeds; the target then holds every file of
\* the source, each but SKILL.md with the text of the source, the first
\* name: line of its SKILL.md carries the new name, and its header names the
\* source directory as customized-from.
C2_ForkResult ==
    \A p \in DOMAIN fk :
        (/\ fk[p].pc = "exited"
         /\ fk[p].output_path # NoPath
         /\ NameAccepted(fk[p].new_name)
         /\ IsDir(fs0, fk[p].source_path)
         /\ Exists(fs0, Append(fk[p].source_path, SKILL_MD))
         /\ ~Exists(fs0, Append(fk[p].output_path, fk[p].new_name))
         /\ fk[p].error # COPY_ERROR) =>
            /\ fk[p].exit = 0
            /\ fk[p].ret = Append(fk[p].output_path, fk[p].new_name)
            /\ \A q \in Under(fs0, fk[p].source_path) :
                  /\ Exists(fs, Moved(fk[p].source_path, fk[p].ret, q))
                  /\ q # Append(fk[p].source_path, SKILL_MD) =>
                        fs[Moved(fk[p].source_path, fk[p].ret, q)] = fs0[q]
            /\ FirstNameLine(MetadataOf(fs, fk[p].ret)) = <<"n","a","m","e",":"," ">> \o fk[p].new_name
            /\ FrontmatterMatch(MetadataOf(fs, fk[p].ret)).found
            /\ Contains(HeaderOf(MetadataOf(fs, fk[p].ret)),
                        <<"\n"," "," ","c","u","s","t","o","m","i","z","e","d","-","f","r","o","m",":"," ">>
                        \o fk[p].source_path[Len(fk[p].source_path)] \o <<"\n">>)

\* C3: a fork that reports failure (no path, exit status 1) left the
\* filesystem as it found it, no target directory and no other file created
\* or changed (a copy that the filesystem fails left aside); a fork that
\* reports success returns the target directory, which exists.
C3_NoPartialEffects ==
    \A p \in DOMAIN fk :
        /\ (fk[p].pc = "exited" /\ fk[p].exit # 0 /\ fk[p].error # COPY_ERROR) =>
              /\ fk[p].exit = 1
              /\ fk[p].ret = NoPath
              /\ fs = fs0
        /\ (fk[p].pc = "exited" /\ fk[p].exit = 0) =>
              /\ fk[p].ret = Append(fk[p].output_path, fk[p].new_name)
              /\ IsDir(fs, fk[p].ret)

\* C4: a fork whose target, destination/new-name, exists when it is called
\* returns no path, exits with status 1 and leaves the filesystem, the
\* target and everything under it included, as it was; when the name and the
\* source pass their checks the error is the collision.
C4_CollisionLeavesTarget ==
    \A p \in DOMAIN fk :
        (/\ fk[p].pc = "exited"
         /\ fk[p].output_path # NoPath
         /\ Exists(fs0, Append(fk[p].output_path, fk[p].new_name))) =>
            /\ fk[p].exit = 1
            /\ fk[p].ret = NoPath
            /\ fs = fs0
            /\ Tree(fs, Append(fk[p].output_path, fk[p].new_name))
                 = Tree(fs0, Append(fk[p].output_path, fk[p].new_name))
            /\ (/\ NameAccepted(fk[p].new_name)
                /\ IsDir(fs0, fk[p].source_path)
                /\ Exists(fs0, Append(fk[p].source_path, SKILL_MD))) =>
                  fk[p].error = "Target directory already exists"

\* a fork into out/a, which holds keep.txt, ended on the collision
C4_Witness ==
    /\ fk[1].pc = "exited"
    /\ fk[1].new_name = <<"a">>
    /\ fk[1].error = "Target directory already exists"
    /\ IsFile(fs, <<OUT, <<"a">>, Keep>>)
    /\ IsDir(fs0, <<PDF>>)

\* SKILL.md declares the name n on a line of its own
DeclaresName(content, n) == Contains(content, <<"\n","n","a","m","e",":"," ">> \o n \o <<"\n">>)

\* C7: for every name over [a-z0-9-] that starts or ends with a hyphen or
\* holds two hyphens in a row, the Validator fails a skill whose SKILL.md
\* declares that name, and the forker given that name as the new name exits
\* with status 1 and the filesystem untouched.
C7_HyphenNamesRejected ==
    \A n \in opts.names :
        (/\ HyphenBroken(n)
         /\ \A k \in DOMAIN n : n[k] \in LowerAlnumHyphen) =>
            /\ (/\ val.called
                /\ IsFile(fs, Append(val.path, SKILL_MD))
                /\ DeclaresName(MetadataOf(fs, val.path), n)) => ~val.result.valid
            /\ \A p \in DOMAIN fk :
                  (fk[p].pc # "idle" /\ fk[p].new_name = n) =>
                      /\ fk[p].pc = "exited"
                      /\ fk[p].exit = 1
                      /\ fs = fs0

---------------------------------------------------------------------------
(* Properties of the feedback recorder                                     *)

\* the recordings that were saved, in the order they were made
RECURSIVE Saved(_)
Saved(h) ==
    IF h = <<>> THEN <<>>
    ELSE IF Head(h).tool = "feedback" /\ Head(h).exit = 0 THEN <<Head(h)>> \o Saved(Tail(h))
    ELSE Saved(Tail(h))

PriorityLabels == {<<"C","r","i","t","i","c","a","l">>, <<"H","i","g","h">>, <<"M","e","d","i","u","m">>, <<"L","o","w">>}

\* the header of entry k and the priority section of a recording
HeaderLine(k) == <<"\n","#","#"," ","F","e","e","d","b","a","c","k"," ","E","n","t","r","y"," ","#">> \o Decimal(k) \o <<" ","-"," ">>
PrioritySection(r) == <<"\n","#","#","#"," ","P","r","i","o","r","i","t","y","\n">> \o r.feedback.priority \o <<"\n","\n","-","-","-","\n">>

\* C5: after n recordings against a skill directory that began with no log,
\* whatever the operator answered, the log holds exactly n entry headers,
\* numbered 1..n in the order of the recordings, and each entry stores its
\* priority as one of Critical, High, Medium, Low (high is stored as High).
C5_EntriesNumbered ==
    (fb.pc = "idle" /\ Saved(hist) # <<>>) =>
        /\ IsFile(fs, <<FOO, FEEDBACK_MD>>)
        /\ Count(fs[<<FOO, FEEDBACK_MD>>].text, ENTRY_HEADER) = Len(Saved(hist))
        /\ \A k \in 1..Len(Saved(hist)) :
              /\ Saved(hist)[k].entry_num = k
              /\ Contains(fs[<<FOO, FEEDBACK_MD>>].text, HeaderLine(k))
              /\ Saved(hist)[k].feedback.priority \in PriorityLabels
              /\ Contains(fs[<<FOO, FEEDBACK_MD>>].text, PrioritySection(Saved(hist)[k]))
              /\ Saved(hist)[k].answers.priority = <<"h","i","g","h">> =>
                    Saved(hist)[k].feedback.priority = <<"H","i","g","h">>
        /\ \A j, k \in 1..Len(Saved(hist)) :
              j < k => Find(fs[<<FOO, FEEDBACK_MD>>].text, HeaderLine(j), 1)
                         < Find(fs[<<FOO, FEEDBACK_MD>>].text, HeaderLine(k), 1)

---------------------------------------------------------------------------
(* Properties of the Validator's required keys                             *)

\* the lines of a header
HeaderLines(h) ==
    {SubSeq(h, i, LineEnd(h, i)) : i \in {k \in 1..Len(h) : k = 1 \/ h[k - 1] = "\n"}}

\* the header declares key (written with its colon) with no value
EmptyDeclaration(h, key) == \E l \in HeaderLines(h) : Strip(l) = key

\* the header declares key, with a value or without
Declaration(h, key) == \E l \in HeaderLines(h) : StartsWith(l, key)

\* the header declares a name that the name checks accept
AcceptedNameDeclaration(h) ==
    \E l \in HeaderLines(h) :
        StartsWith(l, <<"n","a","m","e",":">>) /\ NameAccepted(Strip(SubSeq(l, 6, Len(l))))

\* the header holds both declarations, one of them empty: the name (whatever
\* the description) or the description (beside a name that is accepted)
PresenceOnlyCase(h) ==
    \/ EmptyDeclaration(h, <<"n","a","m","e",":">>) /\ Declaration(h, <<"d","e","s","c","r","i","p","t","i","o","n",":">>)
    \/ EmptyDeclaration(h, <<"d","e","s","c","r","i","p","t","i","o","n",":">>) /\ AcceptedNameDeclaration(h)

\* C11: the Validator passes every SKILL.md with a well-formed header block
\* that declares name and description when the value of name, or that of
\* description, is empty, wherever the two declarations stand in the header.
C11_PresenceOnly ==
    (/\ val.called
     /\ IsFile(fs, Append(val.path, SKILL_MD))
     /\ FrontmatterMatch(MetadataOf(fs, val.path)).found
     /\ PresenceOnlyCase(HeaderOf(MetadataOf(fs, val.path)))) =>
        val.result.valid

---------------------------------------------------------------------------
(* Properties of the forker's metadata rewrite                             *)

\* the text after the header block (from its closing delimiter on)
AfterHeader(content) ==
    SubSeq(content, FrontmatterMatch(content).to + 1, Len(content))

\* the header holds a metadata block: a line metadata:
MetadataBlock(h) == \E l \in HeaderLines(h) : Strip(l) = <<"m","e","t","a","d","a","t","a",":">>

\* the header holds the key customized-from
CustomizedFromKey(h) ==
    \E l \in HeaderLines(h) : StartsWith(Strip(l), <<"c","u","s","t","o","m","i","z","e","d","-","f","r","o","m",":">>)

\* the two keys as the forker writes them for source directory src on day t
KeysWritten(src, t) ==
    <<"\n"," "," ","c","u","s","t","o","m","i","z","e","d","-","f","r","o","m",":"," ">> \o src \o <<"\n"," "," ","c","u","s","t","o","m","i","z","a","t","i","o","n","-","d","a","t","e",":"," ">> \o DateOf(t)

\* the first name: of the text stands in its header, with a value on its line
NameLineInHeader(content) ==
    /\ Find(content, <<"n","a","m","e",":">>, 1) # 0
    /\ Find(content, <<"n","a","m","e",":">>, 1) < FrontmatterMatch(content).to
    /\ Strip(SubSeq(content, Find(content, <<"n","a","m","e",":">>, 1) + 5,
                    LineEnd(content, Find(content, <<"n","a","m","e",":">>, 1)))) # <<>>

\* what the rewrite is to make of the text before (of source directory src,
\* on day t): after stands for the text it made
RewriteAsSpecified(before, after, src, t) ==
    /\ FrontmatterMatch(after).found
    /\ AfterHeader(after) = AfterHeader(before)
    /\ Count(HeaderOf(after), <<"c","u","s","t","o","m","i","z","e","d","-","f","r","o","m",":">>) = 1
    /\ ~MetadataBlock(HeaderOf(before)) =>
          EndsWith(HeaderOf(after), <<"\n","m","e","t","a","d","a","t","a",":">> \o KeysWritten(src, t))
    /\ (MetadataBlock(HeaderOf(before)) /\ ~CustomizedFromKey(HeaderOf(before))) =>
          Contains(HeaderOf(after), <<"\n","m","e","t","a","d","a","t","a",":">> \o KeysWritten(src, t) \o <<"\n">>)
    /\ (MetadataBlock(HeaderOf(before)) /\ CustomizedFromKey(HeaderOf(before))) =>
          SubSeq(HeaderOf(after), Find(HeaderOf(after), <<"\n","m","e","t","a","d","a","t","a",":">>, 1),
                 Len(HeaderOf(after)))
            = SubSeq(HeaderOf(before), Find(HeaderOf(before), <<"\n","m","e","t","a","d","a","t","a",":">>, 1),
                     Len(HeaderOf(before)))

\* C12: a fork that succeeded, of a source whose SKILL.md has a well-formed
\* header block (its name line in the header, the new name starting with a
\* letter), left a SKILL.md whose header has the metadata block appended
\* when there was none, the two keys right after the metadata: line when the
\* block lacked customized-from, the block as it was when it held the key;
\* the header then holds exactly one customized-from key and the text after
\* the header block is as it was.
C12_MetadataRewrite ==
    \A p \in DOMAIN fk :
        (/\ fk[p].pc = "exited"
         /\ fk[p].exit = 0
         /\ fk[p].new_name[1] \notin Digits
         /\ IsFile(fs0, Append(fk[p].source_path, SKILL_MD))
         /\ FrontmatterMatch(MetadataOf(fs0, fk[p].source_path)).found
         /\ NameLineInHeader(MetadataOf(fs0, fk[p].source_path))) =>
            RewriteAsSpecified(MetadataOf(fs0, fk[p].source_path),
                               MetadataOf(fs, fk[p].ret),
                               fk[p].source_path[Len(fk[p].source_path)], now)

---------------------------------------------------------------------------
(* Properties of concurrent forks                                          *)

\* C13, as claimed: a fork that passed its check and comes to its copy when
\* the other party has made the target goes on with the copy, which merges
\* into the directory that is there, instead of failing.
C13_CopyMergesIntoTarget ==
    [][\A p \in DOMAIN fk :
          (fk[p].pc = "copy" /\ fk'[p] # fk[p] /\ Exists(fs, fk[p].target_dir)) =>
              fk'[p].pc = "copying"]_vars

\* C13, amended: the check is made once, before the copy, so two forks (or a
\* fork and the other party) can both pass it; a fork that then comes to its
\* copy when the target is there fails with the copy error, exit status 1
\* and no path, and changes nothing; the directory of the other party stays
\* as that party made it whatever step is taken.
C13_CopyRefusesTarget ==
    [][/\ \A p \in DOMAIN fk :
             (fk[p].pc = "copy" /\ fk'[p] # fk[p] /\ Exists(fs, fk[p].target_dir)) =>
                 /\ fs' = fs
                 /\ fk'[p].pc = "exited"
                 /\ fk'[p].exit = 1
                 /\ fk'[p].ret = NoPath
                 /\ fk'[p].error = COPY_ERROR
       /\ Exists(fs, <<OUT, <<"a">>, Keep>>) =>
             Tree(fs', <<OUT, <<"a">>>>) = Tree(fs, <<OUT, <<"a">>>>)]_vars

\* both forks passed the check for out/a; the one forked into it, the other
\* failed at its copy
C13_Witness ==
    /\ fk[1].pc = "exited" /\ fk[1].exit = 0 /\ fk[1].ret = <<OUT, <<"a">>>>
    /\ fk[2].pc = "exited" /\ fk[2].error = COPY_ERROR /\ fk[2].target_dir = <<OUT, <<"a">>>>
    /\ ~Exists(fs, <<OUT, <<"a">>, Keep>>)

\* ---------------------------------------------------------------------
\* Properties of a fork followed by validation

\* C14: whenever the source skill directory passes the Validator and a fork
\* of it under a new name accepted by the name check succeeds, the resulting
\* skill directory passes the Validator too, and the name the Validator
\* extracts from the forked metadata file is exactly the new name.
C14_ForkPreservesValidity ==
    \A p \in DOMAIN fk :
        (/\ fk[p].pc = "exited"
         /\ fk[p].exit = 0
         /\ NameAccepted(fk[p].new_name)
         /\ validate_skill(fs0, fk[p].source_path).valid) =>
            /\ validate_skill(fs, fk[p].ret).valid
            /\ validate_skill(fs, fk[p].ret).name = fk[p].new_name

====
